---- MODULE Spec2Model ----
(***************************************************************************)
(* Model of kedro.io.lambda_dataset.LambdaDataset: an adapter that stores  *)
(* four optional callables (load, save, exists, release) plus metadata and *)
(* forwards the dataset operations to them.                                *)
(*                                                                         *)
(* Python values are records carrying the properties the code inspects:    *)
(* identity (is None), callable(), truthiness (bool()), __module__ and     *)
(* __name__, the class name and str().  A delegate's own behaviour (what   *)
(* it returns or raises when called) is an input of each call.             *)
(***************************************************************************)
EXTENDS Integers, Sequences, FiniteSets, TLC

VARIABLES pc, args, self, op, result, calls, supers, descr, nOps

vars == <<pc, args, self, op, result, calls, supers, descr, nOps>>

\* Number of operations invoked on one adapter in one behaviour.
MaxOps == 2

-----------------------------------------------------------------------------
(* Python values *)

PyNone ==
  [id |-> "None", cls |-> "NoneType", callable |-> FALSE, truthy |-> FALSE,
   hasName |-> FALSE, module |-> "builtins", name |-> "", repr |-> "None"]

\* the empty string: not callable, falsy
PyEmptyStr ==
  [id |-> "''", cls |-> "str", callable |-> FALSE, truthy |-> FALSE,
   hasName |-> FALSE, module |-> "builtins", name |-> "", repr |-> ""]

\* the integer 5: not callable, truthy
PyInt ==
  [id |-> "5", cls |-> "int", callable |-> FALSE, truthy |-> TRUE,
   hasName |-> FALSE, module |-> "builtins", name |-> "", repr |-> "5"]

\* def f(...) in module m; it returns 42
FuncF ==
  [id |-> "f", cls |-> "function", callable |-> TRUE, truthy |-> TRUE,
   hasName |-> TRUE, module |-> "m", name |-> "f", repr |-> "<function f>"]

\* def g(...) in module m; it raises FileNotFoundError
FuncG ==
  [id |-> "g", cls |-> "function", callable |-> TRUE, truthy |-> TRUE,
   hasName |-> TRUE, module |-> "m", name |-> "g", repr |-> "<function g>"]

\* instance of a class defining __call__: callable, truthy, no __name__
CallableObj ==
  [id |-> "obj", cls |-> "Handler", callable |-> TRUE, truthy |-> TRUE,
   hasName |-> FALSE, module |-> "m", name |-> "", repr |-> "<m.Handler object>"]

\* instance of a class defining __call__ and __len__ (or __bool__) that is
\* currently empty: callable, but bool(x) is False
EmptyCallable ==
  [id |-> "emptyobj", cls |-> "Registry", callable |-> TRUE, truthy |-> FALSE,
   hasName |-> FALSE, module |-> "m", name |-> "", repr |-> "<m.Registry object>"]

\* what a caller may pass for a slot
SlotValues ==
  {PyNone, PyEmptyStr, PyInt, FuncF, FuncG, CallableObj, EmptyCallable}

\* what a caller may pass as metadata
MetadataValues == {"None", "{'owner': 'x'}"}

\* what a caller may pass to save
DataValues == {"1", "2"}

\* an attribute that was never assigned (reading it would be an AttributeError)
Unset ==
  [id |-> "<unset>", cls |-> "", callable |-> FALSE, truthy |-> FALSE,
   hasName |-> FALSE, module |-> "", name |-> "", repr |-> ""]

UnsetMetadata == "<unset>"

SlotNames == <<"load", "save", "exists", "release">>

IsNone(v) == v = PyNone

Callable(v) == v.callable

Truthy(v) == v.truthy

-----------------------------------------------------------------------------
(* Outcomes of a call: a returned value or a raised error *)

Return(v) == [kind |-> "return", val |-> v]

Raise(e) == [kind |-> "raise", val |-> e]

NoOutcome == [kind |-> "none", val |-> "none"]

\* the behaviours a caller-supplied delegate may show when invoked
DelegateOutcomes ==
  {Return("42"), Return("True"), Return("False"), Return("None"),
   Raise("FileNotFoundError"), Raise("IOError")}

\* what invoking the value v can do: f and g behave as defined, any other
\* callable object as its class decides, and a non-callable raises TypeError
Behaviour(v) ==
  IF ~v.callable THEN {Raise("TypeError")}
  ELSE IF v = FuncF THEN {Return("42")}
  ELSE IF v = FuncG THEN {Raise("FileNotFoundError")}
  ELSE DelegateOutcomes

\* one invocation of a delegate
Call(slot, fn, a, out) == [slot |-> slot, fn |-> fn, args |-> a, out |-> out]

\* Describe's mapping when the operation is not Describe
NoDescr == [n \in {"load", "save", "exists", "release"} |-> "<n/a>"]

\* one execution of an operation on the adapter s: the attributes afterwards,
\* the outcome, the delegate invocations and the inherited defaults it ran
Run(s, r, c, sup) ==
  [self |-> s, result |-> r, calls |-> c, supers |-> sup, descr |-> NoDescr]

-----------------------------------------------------------------------------
(* LambdaDataset.__init__ *)

NotCallableMsg(name, value) ==
  "DatasetError: '" \o name \o "' function for LambdaDataset must be a Callable. "
      \o "Object of type '" \o value.cls \o "' provided instead."

\* variant: the presence test written as truthiness ("if value and not ...")
RECURSIVE CheckSlots_Truthiness(_, _)
CheckSlots_Truthiness(a, i) ==
  IF i > Len(SlotNames) THEN NoOutcome
  ELSE LET name == SlotNames[i]
           value == a[name]
       IN IF Truthy(value) /\ ~Callable(value)
          THEN Raise(NotCallableMsg(name, value))
          ELSE CheckSlots_Truthiness(a, i + 1)

\* variant: the pairs visited from the last to the first
RECURSIVE CheckSlots_Reversed(_, _)
CheckSlots_Reversed(a, i) ==
  IF i > Len(SlotNames) THEN NoOutcome
  ELSE LET name == SlotNames[Len(SlotNames) + 1 - i]
           value == a[name]
       IN IF ~IsNone(value) /\ ~Callable(value)
          THEN Raise(NotCallableMsg(name, value))
          ELSE CheckSlots_Reversed(a, i + 1)

\* the for loop over the (name, value) pairs, from pair i on: the error raised
\* by the first pair that fails the test, or NoOutcome when the loop ends
RECURSIVE CheckSlots(_, _)
CheckSlots(a, i) ==
  IF i > Len(SlotNames) THEN NoOutcome
  ELSE LET name == SlotNames[i]
           value == a[name]
       IN IF ~IsNone(value) /\ ~Callable(value)
          THEN Raise(NotCallableMsg(name, value))
          ELSE CheckSlots(a, i + 1)

\* the attributes after __init__(a) on a fresh object, and its outcome
Init__(a) ==
  LET chk == CheckSlots(a, 1)
      fresh == [load |-> Unset, save |-> Unset, exists |-> Unset,
                release |-> Unset, metadata |-> UnsetMetadata]
  IN IF chk.kind = "raise"
     THEN [self |-> fresh, result |-> chk]
     ELSE [self |-> [load |-> a.load, save |-> a.save, exists |-> a.exists,
                     release |-> a.release, metadata |-> a.metadata],
           result |-> Return("None")]

-----------------------------------------------------------------------------
(* LambdaDataset._load / _save *)

NoLoadMsg ==
  "DatasetError: Cannot load data set. No 'load' function provided when LambdaDataset was created."

NoSaveMsg ==
  "DatasetError: Cannot save to data set. No 'save' function provided when LambdaDataset was created."

\* out: what the load delegate does if it is invoked
_load(s, out) ==
  IF ~Truthy(s.load)
  THEN Run(s, Raise(NoLoadMsg), <<>>, <<>>)
  ELSE Run(s, out, <<Call("load", s.load, <<>>, out)>>, <<>>)

\* out: what the save delegate does if it is invoked; its return value is dropped
_save(s, data, out) ==
  IF ~Truthy(s.save)
  THEN Run(s, Raise(NoSaveMsg), <<>>, <<>>)
  ELSE Run(s, IF out.kind = "raise" THEN out ELSE Return("None"),
           <<Call("save", s.save, <<data>>, out)>>, <<>>)

-----------------------------------------------------------------------------
(* The inherited defaults of the abstract dataset (kedro.io.core) *)

NotFoundError == "FileNotFoundError"

\* default existence check: attempt a load (lout: what the load delegate does
\* if invoked); success is "exists", the not-found error is "does not exist";
\* for any other error either answer "does not exist" or let the error
\* through (propagate chooses)
SuperExists(s, lout, propagate) ==
  LET l == _load(s, lout)
      r == IF l.result.kind = "return" THEN Return("True")
           ELSE IF l.result.val = NotFoundError THEN Return("False")
           ELSE IF propagate THEN l.result
           ELSE Return("False")
  IN Run(l.self, r, l.calls, <<"_exists">>)

\* default release: nothing to release
SuperRelease(s) == Run(s, Return("None"), <<>>, <<"_release">>)

-----------------------------------------------------------------------------
(* LambdaDataset._exists / _release / _describe *)

\* variant: no exists function answers "does not exist" without the default
_exists_NoFallback(s, out, lout, propagate) ==
  IF ~Truthy(s.exists)
  THEN Run(s, Return("False"), <<>>, <<>>)
  ELSE Run(s, out, <<Call("exists", s.exists, <<>>, out)>>, <<>>)

\* out: what the exists delegate does if it is invoked; lout, propagate: the
\* inputs of the default check
_exists(s, out, lout, propagate) ==
  IF ~Truthy(s.exists)
  THEN SuperExists(s, lout, propagate)
  ELSE Run(s, out, <<Call("exists", s.exists, <<>>, out)>>, <<>>)

\* variant: the release function is dropped once it has run
_release_Forget(s, out) ==
  IF ~Truthy(s.release)
  THEN SuperRelease(s)
  ELSE Run([s EXCEPT !.release = PyNone],
           IF out.kind = "raise" THEN out ELSE Return("None"),
           <<Call("release", s.release, <<>>, out)>>, <<>>)

_release(s, out) ==
  IF ~Truthy(s.release)
  THEN SuperRelease(s)
  ELSE Run(s, IF out.kind = "raise" THEN out ELSE Return("None"),
           <<Call("release", s.release, <<>>, out)>>, <<>>)

_to_str(func) ==
  IF ~Truthy(func) THEN "None"
  ELSE IF func.hasName THEN "<" \o func.module \o "." \o func.name \o ">"
  ELSE func.repr

_describe(s) ==
  [Run(s, Return("dict"), <<>>, <<>>) EXCEPT
     !.descr = [n \in {"load", "save", "exists", "release"} |-> _to_str(s[n])]]

-----------------------------------------------------------------------------
(* The adapter's life: constructed once, then operated any number of times *)

NoArgs ==
  [load |-> Unset, save |-> Unset, exists |-> Unset, release |-> Unset,
   metadata |-> UnsetMetadata]

NoOp == [name |-> "none", data |-> "none"]

Init ==
  /\ pc = "new"
  /\ args = NoArgs
  /\ self = NoArgs
  /\ op = NoOp
  /\ result = NoOutcome
  /\ calls = <<>>
  /\ supers = <<>>
  /\ descr = NoDescr
  /\ nOps = 0

Construct ==
  /\ pc = "new"
  /\ \E l \in SlotValues, sv \in SlotValues, e \in SlotValues,
        r \in SlotValues, m \in MetadataValues :
       LET a == [load |-> l, save |-> sv, exists |-> e, release |-> r,
                 metadata |-> m]
           c == Init__(a)
       IN /\ args' = a
          /\ self' = c.self
          /\ result' = c.result
          /\ pc' = IF c.result.kind = "raise" THEN "failed" ELSE "constructed"
  /\ op' = [name |-> "__init__", data |-> "none"]
  /\ calls' = <<>>
  /\ supers' = <<>>
  /\ descr' = NoDescr
  /\ UNCHANGED nOps

\* the effect of one operation that ran as r
Finish(name, data, r) ==
  /\ op' = [name |-> name, data |-> data]
  /\ result' = r.result
  /\ calls' = r.calls
  /\ supers' = r.supers
  /\ descr' = r.descr
  /\ self' = r.self
  /\ nOps' = nOps + 1
  /\ UNCHANGED <<pc, args>>

Load ==
  /\ pc = "constructed" /\ nOps < MaxOps
  /\ \E out \in Behaviour(self.load) : Finish("load", "none", _load(self, out))

Save ==
  /\ pc = "constructed" /\ nOps < MaxOps
  /\ \E data \in DataValues, out \in Behaviour(self.save) :
       Finish("save", data, _save(self, data, out))

Exists ==
  /\ pc = "constructed" /\ nOps < MaxOps
  /\ \E out \in Behaviour(self.exists), lout \in Behaviour(self.load),
        propagate \in BOOLEAN :
       Finish("exists", "none", _exists(self, out, lout, propagate))

Release ==
  /\ pc = "constructed" /\ nOps < MaxOps
  /\ \E out \in Behaviour(self.release) :
       Finish("release", "none", _release(self, out))

Describe ==
  /\ pc = "constructed" /\ nOps < MaxOps
  /\ Finish("describe", "none", _describe(self))

Next == Construct \/ Load \/ Save \/ Exists \/ Release \/ Describe

Spec == Init /\ [][Next]_vars

-----------------------------------------------------------------------------
(* Properties *)

Slots == {"load", "save", "exists", "release"}

\* the value was supplied for a slot and can be invoked
Supplied(v) == ~IsNone(v) /\ Callable(v)

\* the last operation invoked exactly the function fn of slot n, once, with a
OneCall(n, fn, a) ==
  /\ Len(calls) = 1
  /\ calls[1].slot = n
  /\ calls[1].fn = fn
  /\ calls[1].args = a

\* C1: Load without a load function fails with "no load function provided" and
\* invokes nothing; Load with any invocable load function invokes it exactly
\* once with no arguments and returns or raises exactly what it does.
C1_LoadDelegates ==
  (pc = "constructed" /\ op.name = "load") =>
    /\ IsNone(args.load) => (result = Raise(NoLoadMsg) /\ calls = <<>>)
    /\ Supplied(args.load) =>
         (OneCall("load", args.load, <<>>) /\ result = calls[1].out)

\* C2: Save(x) without a save function fails with "no save function provided";
\* Save(x) with any invocable save function invokes it exactly once with
\* exactly x and propagates its error unchanged.
C2_SaveDelegates ==
  (pc = "constructed" /\ op.name = "save") =>
    /\ IsNone(args.save) => (result = Raise(NoSaveMsg) /\ calls = <<>>)
    /\ Supplied(args.save) =>
         /\ OneCall("save", args.save, <<op.data>>)
         /\ calls[1].out.kind = "raise" => result = calls[1].out
         /\ calls[1].out.kind = "return" => result = Return("None")

\* C3: construction succeeds exactly when every slot is absent or invocable,
\* and otherwise fails with a DatasetError.
C3_ConstructionIff ==
  (pc # "new") =>
    /\ (pc = "constructed") <=>
         (\A n \in Slots : IsNone(args[n]) \/ Callable(args[n]))
    /\ (pc = "failed") =>
         (result.kind = "raise" /\ SubSeq(result.val, 1, 13) = "DatasetError:")

C3_Witness ==
  /\ pc = "failed"
  /\ args.load = FuncF /\ args.save = PyNone
  /\ args.exists = PyEmptyStr /\ args.release = CallableObj

\* C4: a failed construction names the first invalid slot in the order load,
\* save, exists, release and the type of its value, and has stored nothing.
C4_FirstInvalidNamed ==
  (pc = "failed") =>
    /\ \E i \in 1..4 :
         /\ ~IsNone(args[SlotNames[i]]) /\ ~Callable(args[SlotNames[i]])
         /\ \A j \in 1..(i - 1) :
              IsNone(args[SlotNames[j]]) \/ Callable(args[SlotNames[j]])
         /\ result = Raise("DatasetError: '" \o SlotNames[i]
                           \o "' function for LambdaDataset must be a Callable. "
                           \o "Object of type '" \o args[SlotNames[i]].cls
                           \o "' provided instead.")
    /\ self = NoArgs

C4_Witness ==
  /\ pc = "failed"
  /\ args.load = FuncF /\ args.save = PyInt
  /\ args.exists = CallableObj /\ args.release = PyEmptyStr

\* C5: Release with any invocable release function invokes it exactly once
\* and does not run the inherited default; Release without one runs the
\* inherited default exactly once and invokes no delegate.
C5_ReleaseExclusive ==
  (pc = "constructed" /\ op.name = "release") =>
    /\ Supplied(args.release) =>
         (OneCall("release", args.release, <<>>) /\ supers = <<>>)
    /\ IsNone(args.release) => (calls = <<>> /\ supers = <<"_release">>)

\* C6: Exists with any invocable exists function invokes it exactly once and
\* returns exactly its result without the inherited default; Exists without
\* one returns exactly the inherited default's result.
C6_ExistsDelegates ==
  (pc = "constructed" /\ op.name = "exists") =>
    /\ Supplied(args.exists) =>
         /\ OneCall("exists", args.exists, <<>>)
         /\ result = calls[1].out
         /\ supers = <<>>
    /\ IsNone(args.exists) =>
         /\ supers = <<"_exists">>
         /\ \E lout \in Behaviour(args.load), propagate \in BOOLEAN :
              LET d == SuperExists(args, lout, propagate)
              IN result = d.result /\ calls = d.calls

C8_Describe ==
  (pc = "constructed" /\ op.name = "describe") =>
    /\ result.kind = "return"
    /\ calls = <<>> /\ supers = <<>>
    /\ DOMAIN descr = Slots
    /\ \A n \in Slots :
         /\ (descr[n] = "None") <=> IsNone(args[n])
         /\ (Supplied(args[n]) /\ args[n].hasName) =>
              descr[n] = "<" \o args[n].module \o "." \o args[n].name \o ">"
         /\ (Supplied(args[n]) /\ ~args[n].hasName) => descr[n] = args[n].repr

\* the executions a freshly constructed adapter with attributes a can show
\* for the operation o
FreshRuns(a, o) ==
  IF o.name = "load" THEN {_load(a, out) : out \in Behaviour(a.load)}
  ELSE IF o.name = "save"
  THEN {_save(a, o.data, out) : out \in Behaviour(a.save)}
  ELSE IF o.name = "exists"
  THEN {_exists(a, out, lout, p) :
          out \in Behaviour(a.exists), lout \in Behaviour(a.load),
          p \in BOOLEAN}
  ELSE IF o.name = "release"
  THEN {_release(a, out) : out \in Behaviour(a.release)}
  ELSE {_describe(a)}

\* C9: after any sequence of operations, failed ones included, the stored
\* references and the metadata are the constructor's arguments, and what an
\* operation does is what it does on a freshly constructed adapter.
C9_Immutable ==
  (pc = "constructed") =>
    /\ self = args
    /\ (op.name # "__init__") =>
         \E r \in FreshRuns(args, op) :
           /\ result = r.result /\ calls = r.calls
           /\ supers = r.supers /\ descr = r.descr

C9_Witness ==
  /\ pc = "constructed" /\ nOps = MaxOps
  /\ op.name = "release" /\ Len(calls) = 1
  /\ args.metadata = "{'owner': 'x'}"

\* C10: every operation invokes at most one delegate and only the one of its
\* own slot (Exists, when the exists function is absent, whatever the default
\* invokes); Describe and construction invoke none; an operation failing for
\* an absent slot invokes none.
C10_OwnSlotOnly ==
  /\ Len(calls) <= 1
  /\ (op.name \in {"__init__", "describe", "none"}) => calls = <<>>
  /\ (op.name \in Slots) =>
       \A i \in 1..Len(calls) :
         \/ calls[i].slot = op.name /\ calls[i].fn = args[op.name]
         \/ op.name = "exists" /\ IsNone(args.exists)
  /\ (op.name \in {"load", "save"} /\ IsNone(args[op.name])) =>
       (result.kind = "raise" /\ calls = <<>>)

====
